---- MODULE Spec2Model ----
(***************************************************************************)
(* Manifest-based synchronisation of Logia (src-tauri/src/sync_manifest.rs *)
(* and the "MANIFEST-BASED SYNC SYSTEM" part of src-tauri/src/             *)
(* google_drive.rs).                                                       *)
(*                                                                         *)
(* A path "notes/a.json" is the pair <<"notes", "a.json">>.  An            *)
(* Option<T> is a sequence of length at most one: None == <<>>,            *)
(* Some(x) == <<x>>.  Timestamps are whole seconds.  The content of a      *)
(* file is a small number; its SHA-256 digest is <<"sha256", content>>     *)
(* (distinct contents have distinct digests).                              *)
(***************************************************************************)
EXTENDS Integers, Sequences, FiniteSets, TLC

\* ------------------------------------------------------------------ bounds
MaxTime == 3
MaxContent == 2
MaxId == 2
MaxLocalEdits == 2
MaxRemoteEdits == 1
MaxSyncs == 3
MaxFaults == 1
MaxResolutions == 2

\* --------------------------------------------------------------- constants
Tolerance == 2
\* the clock is observed in steps the cloud check can tell apart
TickStep == Tolerance + 1
ManifestVersion == 1

Subdirs == <<"notes", "folders", "kanban", "trash">>
SubdirSet == {Subdirs[i] : i \in 1..Len(Subdirs)}
Paths == {<<"notes", "a.json">>, <<"trash", "a.json">>}
Contents == 1..MaxContent
Choices == {"local", "cloud", "keep_both", "later"}

None == <<>>
Some(x) == <<x>>
IsSome(o) == o # None
Unwrap(o) == o[1]

VARIABLES
    fs,             \* local files under Documents/Logia: path -> Option([content, modified])
    drive,          \* remote objects: set of [id, parent, name, content, modified_time]
    nextId,         \* next remote object id handed out by the remote store
    manifest,       \* the SyncManifest last written to sync_manifest.json
    cloud_manifest, \* sync_manifest.json at the remote sync root (Option)
    now,            \* Utc::now()
    used,           \* how many local edits, remote edits and sync commands were made
    result,         \* what the sync command of the last step returned
    last,           \* the last step taken, with what the executor saw
    stable,         \* paths left Synced by the last pass and not edited since
    synced_at,      \* path -> the local and remote contents when a pass last left it Synced
    tasks,          \* the sync commands that are running side by side
    begun,          \* the files and manifests when the first of them started (Option)
    manifest_file   \* the bytes of Documents/Logia/sync_manifest.json

vars == <<fs, drive, nextId, manifest, cloud_manifest, now, used, result, last, stable,
          synced_at, tasks, begun, manifest_file>>

\* =========================================================================
\* sync_manifest.rs
\* =========================================================================

FileState(lh, ch, lm, cm, st, id) ==
    [local_hash |-> lh, cloud_hash |-> ch, local_modified |-> lm,
     cloud_modified |-> cm, status |-> st, cloud_file_id |-> id]

DefaultManifest ==
    [version |-> ManifestVersion, device_id |-> "device", last_sync |-> None,
     files |-> <<>>]

compute_file_hash(content) == <<"sha256", content>>

\* path -> <<hash, modified>> for every file found in the four collections
scan_local_files(f) ==
    [p \in {q \in Paths : q[1] \in SubdirSet /\ IsSome(f[q])} |->
        <<compute_file_hash(Unwrap(f[p]).content), Unwrap(f[p]).modified>>]

\* detect_scanned with the Synced -> LocalModified escalation left out
detect_scanned_keeps_synced(files, local_files, p) ==
    LET hash == local_files[p][1]
        modified == local_files[p][2]
    IN  IF p \in DOMAIN files
        THEN LET state == files[p] IN
             IF state.local_hash # Some(hash)
             THEN [state EXCEPT
                     !.local_hash = Some(hash),
                     !.local_modified = Some(modified),
                     !.status = IF @ = "CloudModified" THEN "Conflict" ELSE @]
             ELSE state
        ELSE FileState(Some(hash), None, Some(modified), None, "NewLocal", None)

\* detect_scanned telling a change by the mtime instead of the hash
detect_scanned_by_mtime(files, local_files, p) ==
    LET hash == local_files[p][1]
        modified == local_files[p][2]
    IN  IF p \in DOMAIN files
        THEN LET state == files[p] IN
             IF state.local_modified # Some(modified)
             THEN [state EXCEPT
                     !.local_hash = Some(hash),
                     !.local_modified = Some(modified),
                     !.status = IF @ = "Synced" THEN "LocalModified"
                                ELSE IF @ = "CloudModified" THEN "Conflict"
                                ELSE @]
             ELSE state
        ELSE FileState(Some(hash), None, Some(modified), None, "NewLocal", None)

\* first loop of detect_local_changes: one scanned file
detect_scanned(files, local_files, p) ==
    LET hash == local_files[p][1]
        modified == local_files[p][2]
    IN  IF p \in DOMAIN files
        THEN LET state == files[p] IN
             IF state.local_hash # Some(hash)
             THEN [state EXCEPT
                     !.local_hash = Some(hash),
                     !.local_modified = Some(modified),
                     !.status = IF @ = "Synced" THEN "LocalModified"
                                ELSE IF @ = "CloudModified" THEN "Conflict"
                                ELSE @]
             ELSE state
        ELSE FileState(Some(hash), None, Some(modified), None, "NewLocal", None)

\* detect_deleted deciding cloud presence by cloud_file_id instead of cloud_hash
detect_deleted_by_id(state, present) ==
    IF ~present /\ IsSome(state.local_hash)
    THEN [state EXCEPT
            !.local_hash = None,
            !.local_modified = None,
            !.status = IF IsSome(state.cloud_file_id) THEN "DeletedLocal" ELSE @]
    ELSE state

\* second loop of detect_local_changes: one manifest entry
detect_deleted(state, present) ==
    IF ~present /\ IsSome(state.local_hash)
    THEN [state EXCEPT
            !.local_hash = None,
            !.local_modified = None,
            !.status = IF IsSome(state.cloud_hash) THEN "DeletedLocal" ELSE @]
    ELSE state

\* detect_local_changes starting from SyncManifest::default() instead of a
\* clone of its argument, and escalating a changed LocalModified entry
detect_local_changes_from_default(m, local_files) ==
    LET scanned == [p \in DOMAIN m.files \cup DOMAIN local_files |->
                      IF p \in DOMAIN local_files
                      THEN IF p \in DOMAIN m.files /\ m.files[p].status = "LocalModified"
                           THEN [m.files[p] EXCEPT !.status = "Conflict"]
                           ELSE detect_scanned(m.files, local_files, p)
                      ELSE m.files[p]]
    IN  [DefaultManifest EXCEPT !.files =
            [p \in DOMAIN scanned |->
                detect_deleted(scanned[p], p \in DOMAIN local_files)]]

detect_local_changes(m, local_files) ==
    LET scanned == [p \in DOMAIN m.files \cup DOMAIN local_files |->
                      IF p \in DOMAIN local_files
                      THEN detect_scanned(m.files, local_files, p)
                      ELSE m.files[p]]
    IN  [m EXCEPT !.files =
            [p \in DOMAIN scanned |->
                detect_deleted(scanned[p], p \in DOMAIN local_files)]]

EmptyPlan ==
    [uploads |-> {}, downloads |-> {}, conflicts |-> {},
     deletions_local |-> {}, deletions_cloud |-> {}]

SyncAction(p, state) ==
    [path |-> p, status |-> state.status,
     local_modified |-> state.local_modified,
     cloud_modified |-> state.cloud_modified]

build_sync_plan(m) ==
    LET with(S) == {SyncAction(p, m.files[p]) :
                      p \in {q \in DOMAIN m.files : m.files[q].status \in S}}
    IN  [uploads |-> with({"LocalModified", "NewLocal"}),
         downloads |-> with({"CloudModified", "NewCloud"}),
         conflicts |-> with({"Conflict"}),
         deletions_local |-> with({"DeletedCloud"}),
         deletions_cloud |-> with({"DeletedLocal"})]

\* ---- build_sync_plan with the buckets as the Vecs they are, filled in the
\* order in which the HashMap enumerates the manifest entries

\* SyncPlan::default(), lines 87-97
DefaultPlan ==
    [uploads |-> <<>>, downloads |-> <<>>, conflicts |-> <<>>,
     deletions_local |-> <<>>, deletions_cloud |-> <<>>]

\* plan_push sending NewCloud entries to uploads
plan_push_new_cloud_up(plan, p, state) ==
    LET action == SyncAction(p, state) IN
    CASE state.status \in {"LocalModified", "NewLocal", "NewCloud"} ->
            [plan EXCEPT !.uploads = Append(@, action)]
      [] state.status \in {"CloudModified"} ->
            [plan EXCEPT !.downloads = Append(@, action)]
      [] state.status = "Conflict" -> [plan EXCEPT !.conflicts = Append(@, action)]
      [] state.status = "DeletedLocal" -> [plan EXCEPT !.deletions_cloud = Append(@, action)]
      [] state.status = "DeletedCloud" -> [plan EXCEPT !.deletions_local = Append(@, action)]
      [] OTHER -> plan

\* lines 264-290: the match on the status of one entry
plan_push(plan, p, state) ==
    LET action == SyncAction(p, state) IN
    CASE state.status \in {"LocalModified", "NewLocal"} ->
            [plan EXCEPT !.uploads = Append(@, action)]
      [] state.status \in {"CloudModified", "NewCloud"} ->
            [plan EXCEPT !.downloads = Append(@, action)]
      [] state.status = "Conflict" -> [plan EXCEPT !.conflicts = Append(@, action)]
      [] state.status = "DeletedLocal" -> [plan EXCEPT !.deletions_cloud = Append(@, action)]
      [] state.status = "DeletedCloud" -> [plan EXCEPT !.deletions_local = Append(@, action)]
      [] OTHER -> plan

\* line 263: the loop over the entries
RECURSIVE plan_entries(_, _, _)
plan_entries(plan, m, order) ==
    IF order = <<>> THEN plan
    ELSE plan_entries(plan_push(plan, Head(order), m.files[Head(order)]), m, Tail(order))

\* build_sync_plan_vec passing over the entry that the map enumerates first
build_sync_plan_vec_skips_first(m, order) ==
    plan_entries(DefaultPlan, m, IF order = <<>> THEN order ELSE Tail(order))

\* lines 260-294
build_sync_plan_vec(m, order) == plan_entries(DefaultPlan, m, order)

\* lines 99-119
has_conflicts(plan) == plan.conflicts # <<>>

is_empty(plan) ==
    /\ plan.uploads = <<>> /\ plan.downloads = <<>> /\ plan.conflicts = <<>>
    /\ plan.deletions_local = <<>> /\ plan.deletions_cloud = <<>>

total_actions(plan) ==
    Len(plan.uploads) + Len(plan.downloads) + Len(plan.conflicts)
        + Len(plan.deletions_local) + Len(plan.deletions_cloud)

\* ---- the manifest as a JSON document (serde derive, lines 11-13 and 25-55)

FileStatus ==
    {"Synced", "LocalModified", "CloudModified", "Conflict",
     "DeletedLocal", "DeletedCloud", "NewLocal", "NewCloud"}

\* snake_case dropping what follows the first word
snake_case_first_word(status) ==
    CASE status = "Synced" -> "synced"
      [] status = "LocalModified" -> "local"
      [] status = "CloudModified" -> "cloud"
      [] status = "Conflict" -> "conflict"
      [] status = "DeletedLocal" -> "deleted"
      [] status = "DeletedCloud" -> "deleted"
      [] status = "NewLocal" -> "new"
      [] status = "NewCloud" -> "new"

\* #[serde(rename_all = "snake_case")]
snake_case(status) ==
    CASE status = "Synced" -> "synced"
      [] status = "LocalModified" -> "local_modified"
      [] status = "CloudModified" -> "cloud_modified"
      [] status = "Conflict" -> "conflict"
      [] status = "DeletedLocal" -> "deleted_local"
      [] status = "DeletedCloud" -> "deleted_cloud"
      [] status = "NewLocal" -> "new_local"
      [] status = "NewCloud" -> "new_cloud"

JNull == [t |-> "null"]
JString(s) == [t |-> "string", v |-> s]
JNumber(n) == [t |-> "number", v |-> n]

\* DateTime<Utc> is written as an RFC 3339 string and parsed back from it
to_rfc3339(t) == <<t, "Z">>
parse_rfc3339(s) == s[1]

\* Option<String>: null or a string
ser_string(o) == IF IsSome(o) THEN JString(Unwrap(o)) ELSE JNull
de_string(j) == IF j = JNull THEN None ELSE Some(j.v)

\* Option<DateTime<Utc>>: null or an RFC 3339 string
ser_time(o) == IF IsSome(o) THEN JString(to_rfc3339(Unwrap(o))) ELSE JNull
de_time(j) == IF j = JNull THEN None ELSE Some(parse_rfc3339(j.v))

ser_state(state) ==
    [local_hash |-> ser_string(state.local_hash),
     cloud_hash |-> ser_string(state.cloud_hash),
     local_modified |-> ser_time(state.local_modified),
     cloud_modified |-> ser_time(state.cloud_modified),
     status |-> JString(snake_case(state.status)),
     cloud_file_id |-> ser_string(state.cloud_file_id)]

de_state(j) ==
    FileState(de_string(j.local_hash), de_string(j.cloud_hash),
              de_time(j.local_modified), de_time(j.cloud_modified),
              CHOOSE status \in FileStatus : snake_case(status) = j.status.v,
              de_string(j.cloud_file_id))

\* serde_json::to_string_pretty(manifest)
to_json(m) ==
    [version |-> JNumber(m.version), device_id |-> JString(m.device_id),
     last_sync |-> ser_time(m.last_sync),
     files |-> [p \in DOMAIN m.files |-> ser_state(m.files[p])]]

\* serde_json::from_str(content)
from_json(doc) ==
    [version |-> doc.version.v, device_id |-> doc.device_id.v,
     last_sync |-> de_time(doc.last_sync),
     files |-> [p \in DOMAIN doc.files |-> de_state(doc.files[p])]]

\* what sync_manifest.json holds: nothing, a JSON document, or bytes that
\* cannot be read or parsed
Absent == [kind |-> "absent"]
Garbage == [kind |-> "garbage"]
Written(doc) == [kind |-> "json", doc |-> doc]

\* lines 145-156
load_local_manifest(file) ==
    IF file.kind = "absent" THEN [ok |-> TRUE, manifest |-> DefaultManifest]
    ELSE IF file.kind = "json" THEN [ok |-> TRUE, manifest |-> from_json(file.doc)]
    ELSE [ok |-> FALSE, manifest |-> DefaultManifest]

\* lines 159-165
save_local_manifest(m) == Written(to_json(m))

\* =========================================================================
\* google_drive.rs: collaborators
\* =========================================================================

\* every order in which the elements of S can be enumerated
Perms(S) ==
    {s \in [1..Cardinality(S) -> S] : \A i, j \in 1..Cardinality(S) : s[i] = s[j] => i = j}

\* the remote objects of one folder (the folder id of a collection is its name)
folder(d, folder_id) == {o \in d : o.parent = folder_id}

\* hub.files().list() for each of the four folders, in any order the store returns
Listings(d) ==
    {[notes |-> ln, folders |-> lf, kanban |-> lk, trash |-> lt] :
        ln \in Perms(folder(d, "notes")), lf \in Perms(folder(d, "folders")),
        lk \in Perms(folder(d, "kanban")), lt \in Perms(folder(d, "trash"))}

\* upload_file creating a new object whether or not file_id is given
upload_file_always_creates(d, nid, content, name, folder_id, file_id, t, fail) ==
    IF fail THEN [ok |-> FALSE, drive |-> d, nextId |-> nid]
    ELSE [ok |-> TRUE,
          drive |-> d \cup {[id |-> nid, parent |-> folder_id, name |-> name,
                             content |-> content, modified_time |-> t]},
          nextId |-> nid + 1]

\* upload_file: update the object file_id when given, create a new object otherwise
upload_file(d, nid, content, name, folder_id, file_id, t, fail) ==
    IF fail THEN [ok |-> FALSE, drive |-> d, nextId |-> nid]
    ELSE IF IsSome(file_id)
    THEN IF \E o \in d : o.id = Unwrap(file_id)
         THEN [ok |-> TRUE,
               drive |-> {IF o.id = Unwrap(file_id)
                          THEN [o EXCEPT !.content = content, !.modified_time = t]
                          ELSE o : o \in d},
               nextId |-> nid]
         ELSE [ok |-> FALSE, drive |-> d, nextId |-> nid]
    ELSE [ok |-> TRUE,
          drive |-> d \cup {[id |-> nid, parent |-> folder_id, name |-> name,
                             content |-> content, modified_time |-> t]},
          nextId |-> nid + 1]

\* download_file: fetch the object's content and write it to target_path
download_file(d, f, file_id, target_path, t, fail) ==
    IF fail \/ ~(\E o \in d : o.id = file_id)
    THEN [ok |-> FALSE, fs |-> f]
    ELSE LET o == CHOOSE x \in d : x.id = file_id
         IN  [ok |-> TRUE,
              fs |-> [f EXCEPT ![target_path] =
                         Some([content |-> o.content, modified |-> t])]]

\* hub.files().delete(id)
delete_remote(d, file_id, fail) ==
    IF fail THEN d ELSE {o \in d : o.id # file_id}

\* fs::rename(from, to): replaces the destination when it exists
rename(f, from, to, fail) ==
    IF fail \/ from = to THEN f
    ELSE [f EXCEPT ![to] = f[from], ![from] = None]

\* =========================================================================
\* google_drive.rs: update_manifest_from_cloud
\* =========================================================================

\* lines 1054-1085: one entry of the remote listing
cloud_entry(files, file, subdir) ==
    LET path == <<subdir, file.name>>
        cloud_modified == Some(file.modified_time)
        cloud_id == Some(file.id)
    IN  IF path \in DOMAIN files
        THEN LET state == [files[path] EXCEPT !.cloud_modified = cloud_modified,
                                               !.cloud_file_id = cloud_id]
                 status ==
                    IF state.status = "Synced"
                    THEN IF IsSome(cloud_modified) /\ IsSome(state.local_modified)
                            /\ Unwrap(cloud_modified) - Unwrap(state.local_modified) > Tolerance
                         THEN "CloudModified" ELSE state.status
                    ELSE IF state.status = "LocalModified"
                    THEN IF IsSome(cloud_modified) /\ IsSome(state.cloud_modified)
                            /\ cloud_modified # state.cloud_modified
                         THEN "Conflict" ELSE state.status
                    ELSE state.status
             IN  [files EXCEPT ![path] = [state EXCEPT !.status = status]]
        ELSE [q \in DOMAIN files \cup {path} |->
                IF q = path
                THEN FileState(None, None, None, cloud_modified, "NewCloud", cloud_id)
                ELSE files[q]]

RECURSIVE cloud_listed(_, _, _)
cloud_listed(files, cloud_files, subdir) ==
    IF cloud_files = <<>> THEN files
    ELSE cloud_listed(cloud_entry(files, Head(cloud_files), subdir),
                      Tail(cloud_files), subdir)

\* cloud_deleted marking only entries that were Synced
cloud_deleted_only_synced(files, cloud_paths, subdir) ==
    [p \in DOMAIN files |->
        IF p[1] = subdir /\ p \notin cloud_paths /\ files[p].status = "Synced"
           /\ IsSome(files[p].cloud_file_id) /\ IsSome(files[p].local_hash)
        THEN [files[p] EXCEPT !.status = "DeletedCloud",
                              !.cloud_file_id = None,
                              !.cloud_modified = None]
        ELSE files[p]]

\* cloud_deleted looking at the entries of every collection
cloud_deleted_everywhere(files, cloud_paths, subdir) ==
    [p \in DOMAIN files |->
        IF p \notin cloud_paths
           /\ IsSome(files[p].cloud_file_id) /\ IsSome(files[p].local_hash)
        THEN [files[p] EXCEPT !.status = "DeletedCloud",
                              !.cloud_file_id = None,
                              !.cloud_modified = None]
        ELSE files[p]]

\* lines 1089-1098: entries of the collection that the listing did not show
cloud_deleted(files, cloud_paths, subdir) ==
    [p \in DOMAIN files |->
        IF p[1] = subdir /\ p \notin cloud_paths
           /\ IsSome(files[p].cloud_file_id) /\ IsSome(files[p].local_hash)
        THEN [files[p] EXCEPT !.status = "DeletedCloud",
                              !.cloud_file_id = None,
                              !.cloud_modified = None]
        ELSE files[p]]

update_manifest_from_cloud(m, cloud_files, subdir) ==
    LET cloud_paths == {<<subdir, cloud_files[i].name>> : i \in 1..Len(cloud_files)}
    IN  [m EXCEPT !.files =
            cloud_deleted(cloud_listed(m.files, cloud_files, subdir), cloud_paths, subdir)]

\* lines 1115-1127 and 1156-1163: load, scan, detect, then the four collections
RECURSIVE update_all(_, _, _)
update_all(m, listing, i) ==
    IF i > Len(Subdirs) THEN m
    ELSE update_all(update_manifest_from_cloud(m, listing[Subdirs[i]], Subdirs[i]),
                    listing, i + 1)

refresh_manifest(m, f, listing) ==
    update_all(detect_local_changes(m, scan_local_files(f)), listing, 1)

\* where a command can stop before the manifest is in hand: the hub is not
\* connected, a folder cannot be resolved, or the listing of a collection fails
Aborts == {"none", "hub", "folders"} \cup SubdirSet

\* begin_cycle carrying on after a listing that failed
begin_cycle_ignores_listing(file, f, listing, abort) ==
    LET loaded == load_local_manifest(file) IN
    IF abort \in {"hub", "folders"} \/ ~loaded.ok
    THEN [ok |-> FALSE, manifest |-> DefaultManifest]
    ELSE [ok |-> TRUE, manifest |-> refresh_manifest(loaded.manifest, f, listing)]

\* lines 1109-1127 and 1150-1163: every `?` before the manifest is complete
begin_cycle(file, f, listing, abort) ==
    LET loaded == load_local_manifest(file) IN
    IF abort \in {"hub", "folders"} \/ ~loaded.ok \/ abort \in SubdirSet
    THEN [ok |-> FALSE, manifest |-> DefaultManifest]
    ELSE [ok |-> TRUE, manifest |-> refresh_manifest(loaded.manifest, f, listing)]

\* =========================================================================
\* google_drive.rs: execute_sync_with_resolutions
\* =========================================================================

\* the resolutions argument: a choice for some of the paths in conflict
Resolutions(m) ==
    UNION {[P -> Choices] :
             P \in SUBSET {p \in DOMAIN m.files : m.files[p].status = "Conflict"}}

\* lines 1166-1169: the Vec collected into a HashMap, a later item replacing
\* an earlier one for the same path
collect_resolutions(resolutions) ==
    [p \in {resolutions[i].path : i \in 1..Len(resolutions)} |->
        LET i == CHOOSE i \in 1..Len(resolutions) :
                    /\ resolutions[i].path = p
                    /\ \A j \in (i + 1)..Len(resolutions) : resolutions[j].path # p
        IN  resolutions[i].choice]

\* apply_resolutions not looking at the status of the entry
apply_resolutions_any_status(m, resolution_map) ==
    [m EXCEPT !.files =
        [p \in DOMAIN m.files |->
            IF p \in DOMAIN resolution_map
            THEN [m.files[p] EXCEPT !.status =
                    CASE resolution_map[p] = "local" -> "LocalModified"
                      [] resolution_map[p] = "cloud" -> "CloudModified"
                      [] resolution_map[p] = "keep_both" -> "LocalModified"
                      [] OTHER -> @]
            ELSE m.files[p]]]

\* apply_resolutions with the "local" and "cloud" arms swapped
apply_resolutions_swapped(m, resolution_map) ==
    [m EXCEPT !.files =
        [p \in DOMAIN m.files |->
            IF m.files[p].status = "Conflict" /\ p \in DOMAIN resolution_map
            THEN [m.files[p] EXCEPT !.status =
                    CASE resolution_map[p] = "local" -> "CloudModified"
                      [] resolution_map[p] = "cloud" -> "LocalModified"
                      [] resolution_map[p] = "keep_both" -> "LocalModified"
                      [] OTHER -> @]
            ELSE m.files[p]]]

\* apply_resolutions with "cloud" handled as "local" and "keep_both" ignored
apply_resolutions_local_only(m, resolution_map) ==
    [m EXCEPT !.files =
        [p \in DOMAIN m.files |->
            IF m.files[p].status = "Conflict" /\ p \in DOMAIN resolution_map
            THEN [m.files[p] EXCEPT !.status =
                    CASE resolution_map[p] = "local" -> "LocalModified"
                      [] resolution_map[p] = "cloud" -> "LocalModified"
                      [] OTHER -> @]
            ELSE m.files[p]]]

\* lines 1165-1186
apply_resolutions(m, resolution_map) ==
    [m EXCEPT !.files =
        [p \in DOMAIN m.files |->
            IF m.files[p].status = "Conflict" /\ p \in DOMAIN resolution_map
            THEN [m.files[p] EXCEPT !.status =
                    CASE resolution_map[p] = "local" -> "LocalModified"
                      [] resolution_map[p] = "cloud" -> "CloudModified"
                      [] resolution_map[p] = "keep_both" -> "LocalModified"
                      [] OTHER -> @]
            ELSE m.files[p]]]

ZeroCounts == [d \in SubdirSet |-> 0]

\* the state the per-file pass works on; err is set when a `?` returned early
PassStart(m, f, d, nid) ==
    [files |-> m.files, fs |-> f, drive |-> d, nextId |-> nid,
     up |-> ZeroCounts, down |-> ZeroCounts, err |-> FALSE,
     failed |-> {}, delete_failed |-> {}, rename_failed |-> {}, done |-> {}]

\* sync_upload leaving cloud_hash as it was
sync_upload_keeps_cloud_hash(st, path, fail, t) ==
    LET file_state == st.files[path] IN
    IF IsSome(st.fs[path])
    THEN LET r == upload_file(st.drive, st.nextId, Unwrap(st.fs[path]).content,
                              path[2], path[1], file_state.cloud_file_id, t, fail)
         IN  IF r.ok
             THEN [st EXCEPT
                     !.drive = r.drive,
                     !.nextId = r.nextId,
                     !.files[path] = [file_state EXCEPT
                                        !.cloud_modified = Some(t),
                                        !.status = "Synced"],
                     !.up[path[1]] = @ + 1,
                     !.done = @ \cup {path}]
             ELSE [st EXCEPT !.err = TRUE, !.failed = @ \cup {path}]
    ELSE st

\* lines 1218-1227
sync_upload(st, path, fail, t) ==
    LET file_state == st.files[path] IN
    IF IsSome(st.fs[path])
    THEN LET r == upload_file(st.drive, st.nextId, Unwrap(st.fs[path]).content,
                              path[2], path[1], file_state.cloud_file_id, t, fail)
         IN  IF r.ok
             THEN [st EXCEPT
                     !.drive = r.drive,
                     !.nextId = r.nextId,
                     !.files[path] = [file_state EXCEPT
                                        !.cloud_hash = file_state.local_hash,
                                        !.cloud_modified = Some(t),
                                        !.status = "Synced"],
                     !.up[path[1]] = @ + 1,
                     !.done = @ \cup {path}]
             ELSE [st EXCEPT !.err = TRUE, !.failed = @ \cup {path}]
    ELSE st

\* sync_download leaving local_modified as it was
sync_download_keeps_local_modified(st, path, fail, t) ==
    LET file_state == st.files[path] IN
    IF IsSome(file_state.cloud_file_id)
    THEN LET r == download_file(st.drive, st.fs, Unwrap(file_state.cloud_file_id),
                                path, t, fail)
         IN  IF r.ok
             THEN [st EXCEPT
                     !.fs = r.fs,
                     !.files[path] = [file_state EXCEPT
                                        !.local_hash = file_state.cloud_hash,
                                        !.status = "Synced"],
                     !.down[path[1]] = @ + 1,
                     !.done = @ \cup {path}]
             ELSE [st EXCEPT !.err = TRUE, !.failed = @ \cup {path}]
    ELSE st

\* lines 1228-1241
sync_download(st, path, fail, t) ==
    LET file_state == st.files[path] IN
    IF IsSome(file_state.cloud_file_id)
    THEN LET r == download_file(st.drive, st.fs, Unwrap(file_state.cloud_file_id),
                                path, t, fail)
         IN  IF r.ok
             THEN [st EXCEPT
                     !.fs = r.fs,
                     !.files[path] = [file_state EXCEPT
                                        !.local_hash = file_state.cloud_hash,
                                        !.local_modified = file_state.cloud_modified,
                                        !.status = "Synced"],
                     !.down[path[1]] = @ + 1,
                     !.done = @ \cup {path}]
             ELSE [st EXCEPT !.err = TRUE, !.failed = @ \cup {path}]
    ELSE st

\* lines 1242-1250: the result of the remote delete is discarded
sync_deleted_local(st, path, fail) ==
    LET file_state == st.files[path] IN
    IF IsSome(file_state.cloud_file_id)
    THEN [st EXCEPT
            !.drive = delete_remote(@, Unwrap(file_state.cloud_file_id), fail),
            !.files[path] = [file_state EXCEPT !.cloud_file_id = None,
                                               !.cloud_hash = None,
                                               !.cloud_modified = None],
            !.delete_failed = IF fail THEN @ \cup {path} ELSE @]
    ELSE st

\* lines 1251-1259: the result of the rename is discarded
sync_deleted_cloud(st, path, fail) ==
    LET file_state == st.files[path] IN
    IF IsSome(st.fs[path])
    THEN [st EXCEPT
            !.fs = rename(@, path, <<"trash", path[2]>>, fail),
            !.files[path] = [file_state EXCEPT !.local_hash = None,
                                               !.local_modified = None],
            !.rename_failed = IF fail THEN @ \cup {path} ELSE @]
    ELSE st

\* sync_entry with Conflict handled by the upload arm
sync_entry_uploads_conflict(st, path, fail, t) ==
    LET status == st.files[path].status IN
    IF path[1] \notin SubdirSet THEN st
    ELSE CASE status \in {"LocalModified", "NewLocal", "Conflict"} ->
                sync_upload(st, path, fail, t)
           [] status \in {"CloudModified", "NewCloud"} -> sync_download(st, path, fail, t)
           [] status = "DeletedLocal" -> sync_deleted_local(st, path, fail)
           [] status = "DeletedCloud" -> sync_deleted_cloud(st, path, fail)
           [] OTHER -> st

\* lines 1201-1264: one iteration of the per-file loop
sync_entry(st, path, fail, t) ==
    LET status == st.files[path].status IN
    IF path[1] \notin SubdirSet THEN st
    ELSE CASE status \in {"LocalModified", "NewLocal"} -> sync_upload(st, path, fail, t)
           [] status \in {"CloudModified", "NewCloud"} -> sync_download(st, path, fail, t)
           [] status = "DeletedLocal" -> sync_deleted_local(st, path, fail)
           [] status = "DeletedCloud" -> sync_deleted_cloud(st, path, fail)
           [] OTHER -> st

\* the loop, in the order the map enumerates its entries
RECURSIVE sync_pass(_, _, _, _)
sync_pass(st, order, fails, t) ==
    IF order = <<>> \/ st.err THEN st
    ELSE sync_pass(sync_entry(st, Head(order), Head(order) \in fails, t),
                   Tail(order), fails, t)

\* lines 1165-1264: the resolution step and the per-file pass on the manifest
\* that the two detectors produced
run_pass(cycle, f, d, nid, res, fails, order, t) ==
    sync_pass(PassStart(apply_resolutions(cycle, res), f, d, nid), order, fails, t)

\* what the pass leaves behind for each path it leaves Synced: the content of
\* the local file and the remote objects of the path
snapshot(before, st) ==
    LET left == {p \in DOMAIN st.files : st.files[p].status = "Synced"} IN
    [p \in left \cup DOMAIN before |->
        IF p \in left
        THEN [local |-> IF IsSome(st.fs[p]) THEN Some(Unwrap(st.fs[p]).content) ELSE None,
              remote |-> {[id |-> o.id, content |-> o.content] :
                            o \in {x \in st.drive : x.parent = p[1] /\ x.name = p[2]}}]
        ELSE before[p]]

\* lines 1266-1267: the manifest that is saved after the pass
saved_manifest(cycle, st, t) ==
    [cycle EXCEPT !.files = st.files, !.last_sync = Some(t)]

\* =========================================================================
\* The state machine
\* =========================================================================

NoResult ==
    [kind |-> "none", uploaded |-> ZeroCounts, downloaded |-> ZeroCounts,
     needs_reload |-> FALSE, plan |-> EmptyPlan]

\* Err(String)
ErrResult == [NoResult EXCEPT !.kind = "err"]

\* SyncResult with needs_reload set by a download in any collection
SyncResult_reload_on_any(st) ==
    [kind |-> "ok", uploaded |-> st.up, downloaded |-> st.down,
     needs_reload |-> \E d \in SubdirSet : st.down[d] > 0,
     plan |-> EmptyPlan]

\* lines 1273-1288
SyncResult(st) ==
    [kind |-> "ok", uploaded |-> st.up, downloaded |-> st.down,
     needs_reload |-> st.down["notes"] > 0 \/ st.down["folders"] > 0
                      \/ st.down["kanban"] > 0,
     plan |-> EmptyPlan]

Procs == {1, 2}

IdleTask ==
    [pc |-> "idle", cmd |-> "none", res |-> <<>>, save |-> DefaultManifest,
     ret |-> NoResult]

Step(cmd) ==
    [cmd |-> cmd, loaded |-> <<>>, cycle |-> <<>>, res |-> <<>>, fails |-> {},
     failed |-> {}, delete_failed |-> {}, rename_failed |-> {},
     abort |-> "none", unreadable |-> FALSE, done |-> {}]

Init ==
    /\ fs = [p \in Paths |-> None]
    /\ drive = {}
    /\ nextId = 1
    /\ manifest = DefaultManifest
    /\ cloud_manifest = None
    /\ now = 0
    /\ used = [local |-> 0, remote |-> 0, sync |-> 0, fault |-> 0]
    /\ result = NoResult
    /\ last = Step("init")
    /\ stable = {}
    /\ synced_at = <<>>
    /\ tasks = [i \in Procs |-> IdleTask]
    /\ begun = None
    /\ manifest_file = Absent

\* ---- the world outside the sync commands

Tick ==
    /\ now + TickStep <= MaxTime
    /\ now' = now + TickStep
    /\ result' = NoResult
    /\ last' = Step("tick")
    /\ UNCHANGED <<fs, drive, nextId, manifest, cloud_manifest, used, stable, synced_at, tasks, begun,
                   manifest_file>>

Edited(p, side, max) ==
    /\ used[side] < max
    /\ used' = [used EXCEPT ![side] = @ + 1]
    /\ stable' = stable \ {p}
    /\ UNCHANGED synced_at
    /\ result' = NoResult
    /\ last' = Step("edit")
    /\ UNCHANGED <<manifest, cloud_manifest, now, tasks, begun, manifest_file>>

\* the application writes or rewrites a document
LocalWrite ==
    \E p \in Paths, c \in Contents :
        /\ fs' = [fs EXCEPT ![p] = Some([content |-> c, modified |-> now])]
        /\ Edited(p, "local", MaxLocalEdits)
        /\ UNCHANGED <<drive, nextId>>

LocalDelete ==
    \E p \in Paths :
        /\ IsSome(fs[p])
        /\ fs' = [fs EXCEPT ![p] = None]
        /\ Edited(p, "local", MaxLocalEdits)
        /\ UNCHANGED <<drive, nextId>>

\* another device creates, rewrites or deletes a remote object
RemoteCreate ==
    \E p \in Paths, c \in Contents :
        /\ nextId <= MaxId
        /\ ~(\E o \in drive : o.parent = p[1] /\ o.name = p[2])
        /\ drive' = drive \cup {[id |-> nextId, parent |-> p[1], name |-> p[2],
                                 content |-> c, modified_time |-> now]}
        /\ nextId' = nextId + 1
        /\ Edited(p, "remote", MaxRemoteEdits)
        /\ UNCHANGED fs

RemoteWrite ==
    \E o \in drive, c \in Contents :
        /\ drive' = (drive \ {o}) \cup {[o EXCEPT !.content = c, !.modified_time = now]}
        /\ Edited(<<o.parent, o.name>>, "remote", MaxRemoteEdits)
        /\ UNCHANGED <<fs, nextId>>

RemoteDelete ==
    \E o \in drive :
        /\ drive' = drive \ {o}
        /\ Edited(<<o.parent, o.name>>, "remote", MaxRemoteEdits)
        /\ UNCHANGED <<fs, nextId>>

\* ---- the sync commands

Synced(faults) ==
    /\ used.sync < MaxSyncs
    /\ used.fault + faults <= MaxFaults
    /\ used' = [used EXCEPT !.sync = @ + 1, !.fault = @ + faults]

\* sync_manifest.json is damaged from outside the sync commands
CorruptManifest ==
    /\ manifest_file.kind = "json"
    /\ used.fault < MaxFaults
    /\ manifest_file' = Garbage
    /\ used' = [used EXCEPT !.fault = @ + 1]
    /\ result' = NoResult
    /\ last' = Step("corrupt")
    /\ UNCHANGED <<fs, drive, nextId, manifest, cloud_manifest, now, stable, synced_at, tasks, begun>>

Faults(abort) == IF abort = "none" THEN 0 ELSE 1

\* get_sync_plan, lines 1105-1134, stopping early only in the ways of `aborts`
get_sync_plan(aborts) ==
    \E listing \in Listings(drive), abort \in aborts :
    \E c \in {begin_cycle(manifest_file, fs, listing, abort)} :
        /\ IF c.ok
           THEN /\ manifest' = c.manifest
                /\ manifest_file' = save_local_manifest(c.manifest)
                /\ result' = [NoResult EXCEPT !.kind = "plan",
                                              !.plan = build_sync_plan(c.manifest)]
           ELSE /\ result' = ErrResult
                /\ UNCHANGED <<manifest, manifest_file>>
        /\ last' = [Step("plan") EXCEPT
                      !.loaded = manifest.files,
                      !.cycle = c.manifest.files,
                      !.abort = abort,
                      !.unreadable = ~load_local_manifest(manifest_file).ok]
        /\ Synced(Faults(abort))
        /\ UNCHANGED <<fs, drive, nextId, cloud_manifest, now, stable, synced_at, tasks, begun>>

\* execute_sync_with_resolutions, lines 1145-1289; cloud_fails tells whether
\* upload_cloud_manifest may fail
execute_sync_with_resolutions(aborts, cloud_fails) ==
    \E listing \in Listings(drive), abort \in aborts, cloud_fail \in cloud_fails :
    \E c \in {begin_cycle(manifest_file, fs, listing, abort)} :
    \E cycle \in {c.manifest} :
    \E res \in Resolutions(cycle), fails \in SUBSET DOMAIN cycle.files,
       order \in Perms(DOMAIN cycle.files) :
    \E st \in {run_pass(cycle, fs, drive, nextId, res, fails, order, now)} :
        /\ st.nextId <= MaxId + 1
        /\ cloud_fail => c.ok /\ ~st.err
        /\ fs' = st.fs
        /\ drive' = st.drive
        /\ nextId' = st.nextId
        /\ IF ~c.ok
           THEN /\ result' = ErrResult
                /\ UNCHANGED <<manifest, manifest_file, cloud_manifest, stable, synced_at>>
           ELSE IF st.err
           THEN /\ result' = ErrResult
                /\ UNCHANGED <<manifest, manifest_file, cloud_manifest>>
                /\ stable' = {}
                /\ UNCHANGED synced_at
           ELSE /\ manifest' = saved_manifest(cycle, st, now)
                /\ manifest_file' = save_local_manifest(saved_manifest(cycle, st, now))
                /\ stable' = {p \in DOMAIN st.files : st.files[p].status = "Synced"}
                /\ synced_at' = snapshot(synced_at, st)
                /\ IF cloud_fail
                   THEN result' = ErrResult /\ UNCHANGED cloud_manifest
                   ELSE /\ result' = SyncResult(st)
                        /\ cloud_manifest' = Some(saved_manifest(cycle, st, now))
        /\ last' = [cmd |-> "execute", loaded |-> manifest.files,
                    cycle |-> cycle.files, res |-> res, fails |-> fails,
                    failed |-> st.failed, delete_failed |-> st.delete_failed,
                    rename_failed |-> st.rename_failed,
                    abort |-> abort,
                    unreadable |-> ~load_local_manifest(manifest_file).ok,
                    done |-> st.done]
        /\ Synced(Cardinality(fails) + Faults(abort) + (IF cloud_fail THEN 1 ELSE 0))
        /\ UNCHANGED <<now, tasks, begun>>

\* the commands with the Drive reachable throughout
GetSyncPlan == get_sync_plan({"none"})

ExecuteSync == execute_sync_with_resolutions({"none"}, {FALSE})

Next ==
    \/ Tick
    \/ LocalWrite
    \/ LocalDelete
    \/ RemoteCreate
    \/ RemoteWrite
    \/ RemoteDelete
    \/ GetSyncPlan
    \/ ExecuteSync

Spec == Init /\ [][Next]_vars

\* =========================================================================
\* The commands when the hub, the folders, the listings, the upload of the
\* cloud manifest or the manifest file itself can fail
\* =========================================================================

GetSyncPlanFaulty == get_sync_plan(Aborts)

ExecuteSyncFaulty == execute_sync_with_resolutions(Aborts, BOOLEAN)

NextFaulty ==
    \/ LocalWrite
    \/ LocalDelete
    \/ RemoteCreate
    \/ CorruptManifest
    \/ GetSyncPlanFaulty
    \/ ExecuteSyncFaulty

SpecFaulty == Init /\ [][NextFaulty]_vars

\* =========================================================================
\* The pure functions of sync_manifest.rs applied to manifests of every
\* shape: each FileStatus, each optional field present or absent
\* =========================================================================

Options(x) == {None, Some(x)}

\* one entry for every status and every combination of optional fields
AnyState ==
    {FileState(lh, ch, lm, cm, st, id) :
        lh \in Options(compute_file_hash(1)), ch \in Options(compute_file_hash(MaxContent)),
        lm \in Options(0), cm \in Options(MaxTime), st \in FileStatus,
        id \in Options(MaxId)}

\* one entry for every status, with the fields all present or all absent
PlainState ==
    {s \in AnyState :
        \/ \A k \in DOMAIN s : k # "status" => IsSome(s[k])
        \/ \A k \in DOMAIN s : k # "status" => s[k] = None}

AnyFiles ==
    {<<>>} \cup UNION {[{p} -> AnyState] : p \in Paths} \cup [Paths -> PlainState]

AnyManifest ==
    {[DefaultManifest EXCEPT !.files = files, !.last_sync = ls] :
        files \in AnyFiles, ls \in Options(MaxTime)}

\* what the function applied by the last step returned
Returned(kind, value) == [kind |-> kind, value |-> value]

\* the last step, the manifest it was given and the plan built before it
Applied(cmd, before, first) == [cmd |-> cmd, before |-> before, first |-> first]

InitPure ==
    /\ manifest \in AnyManifest
    /\ fs = [p \in Paths |-> None]
    /\ drive = {}
    /\ nextId = 1
    /\ cloud_manifest = None
    /\ now = 0
    /\ used = [local |-> 0, remote |-> 0, sync |-> 0, fault |-> 0]
    /\ result = Returned("none", <<>>)
    /\ last = Applied("init", manifest, DefaultPlan)
    /\ stable = {}
    /\ synced_at = <<>>
    /\ tasks = [i \in Procs |-> IdleTask]
    /\ begun = None
    /\ manifest_file = Absent

PureFrame == UNCHANGED <<fs, drive, nextId, cloud_manifest, now, used, stable, synced_at, tasks, begun>>

\* build_sync_plan(&manifest)
BuildPlan ==
    \E order \in Perms(DOMAIN manifest.files) :
        /\ result' = Returned("plan", build_sync_plan_vec(manifest, order))
        /\ last' = Applied("build", manifest, DefaultPlan)
        /\ PureFrame
        /\ UNCHANGED <<manifest, manifest_file>>

\* build_sync_plan(&manifest) once more, right after a first call
BuildPlanAgain ==
    \E order \in Perms(DOMAIN manifest.files) :
        /\ last.cmd = "build"
        /\ result' = Returned("plan", build_sync_plan_vec(manifest, order))
        /\ last' = Applied("rebuild", last.before, result.value)
        /\ PureFrame
        /\ UNCHANGED <<manifest, manifest_file>>

\* save_local_manifest(&manifest)
SaveLocal ==
    /\ manifest_file' = save_local_manifest(manifest)
    /\ result' = Returned("saved", <<>>)
    /\ last' = Applied("save", manifest, DefaultPlan)
    /\ PureFrame
    /\ UNCHANGED manifest

\* load_local_manifest() of the file that was saved
LoadLocal ==
    /\ manifest_file.kind = "json"
    /\ result' = Returned("loaded", load_local_manifest(manifest_file))
    /\ last' = Applied("load", manifest, DefaultPlan)
    /\ PureFrame
    /\ UNCHANGED <<manifest, manifest_file>>

NextPure ==
    \/ BuildPlan
    \/ BuildPlanAgain
    \/ SaveLocal
    \/ LoadLocal

SpecPure == InitPure /\ [][NextPure]_vars

\* =========================================================================
\* The two detectors applied once to manifests of every shape
\* =========================================================================

\* what scan_local_files can return: for some of the paths a hash and an mtime
AnyScan ==
    UNION {[P -> {<<compute_file_hash(c), t>> : c \in Contents, t \in {0, MaxTime}}] :
             P \in SUBSET Paths}

\* what the listing of one folder can return: nothing or one object
AnyListing(subdir) ==
    {<<>>} \cup
    {<<[id |-> i, parent |-> subdir, name |-> n, content |-> 1, modified_time |-> t]>> :
        i \in 1..MaxId, n \in {p[2] : p \in Paths}, t \in 0..MaxTime}

\* the last step, the manifest it was given and its other arguments
Call(cmd, before, args) == [cmd |-> cmd, before |-> before, args |-> args]

\* detect_local_changes(&manifest, &local_files)
DetectLocal ==
    \E local_files \in AnyScan :
        /\ last.cmd = "init"
        /\ result' = Returned("detected", detect_local_changes(manifest, local_files))
        /\ last' = Call("detect", manifest, local_files)
        /\ PureFrame
        /\ UNCHANGED <<manifest, manifest_file>>

\* update_manifest_from_cloud(&hub, &mut manifest, folder_id, subdir)
UpdateFromCloud ==
    \E subdir \in SubdirSet :
    \E cloud_files \in AnyListing(subdir) :
        /\ last.cmd = "init"
        /\ result' = Returned("updated",
                               update_manifest_from_cloud(manifest, cloud_files, subdir))
        /\ last' = Call("cloud", manifest, [cloud_files |-> cloud_files, subdir |-> subdir])
        /\ PureFrame
        /\ UNCHANGED <<manifest, manifest_file>>

\* what the resolutions argument can be: up to MaxResolutions items, each
\* naming a path (tracked or not) and a choice (recognised or not)
AnyResolutions ==
    UNION {[1..n -> [path : Paths, choice : Choices]] : n \in 0..MaxResolutions}

\* lines 1165-1186 of execute_sync_with_resolutions
ApplyResolutions ==
    \E resolutions \in AnyResolutions :
        /\ last.cmd = "init"
        /\ result' = Returned("resolved",
                               apply_resolutions(manifest, collect_resolutions(resolutions)))
        /\ last' = Call("resolve", manifest, resolutions)
        /\ PureFrame
        /\ UNCHANGED <<manifest, manifest_file>>

NextDetect ==
    \/ DetectLocal
    \/ UpdateFromCloud
    \/ ApplyResolutions

SpecDetect == InitPure /\ [][NextDetect]_vars

\* =========================================================================
\* A second replica: a device that finds some local manifest, some local
\* files, some remote objects and some manifest at the cloud root, and runs
\* the sync commands
\* =========================================================================

\* lines 940-978: Ok(Some(manifest)) when sync_manifest.json is at the cloud
\* root, Ok(None) otherwise; neither command calls it
download_cloud_manifest(cloud) == cloud

ReplicaPath == <<"notes", "a.json">>

\* the local manifest file: none yet, or one that tracks the path in a plain way
ReplicaFiles ==
    {Absent} \cup
    {save_local_manifest([DefaultManifest EXCEPT !.files = files]) :
        files \in {<<>>} \cup [{ReplicaPath} -> PlainState]}

\* the local collections: the path's file absent or present
ReplicaFs ==
    {[p \in Paths |-> IF p = ReplicaPath THEN x ELSE None] :
        x \in {None} \cup {Some([content |-> c, modified |-> t]) :
                              c \in Contents, t \in {0, MaxTime}}}

\* the remote collections: empty, or one object for the path
ReplicaDrives ==
    {{}} \cup
    {{[id |-> 1, parent |-> ReplicaPath[1], name |-> ReplicaPath[2],
       content |-> c, modified_time |-> t]} : c \in Contents, t \in {0, MaxTime}}

\* the cloud root: no manifest, or one that tracks the path in a plain way
ReplicaClouds ==
    {None} \cup
    {Some([DefaultManifest EXCEPT !.files = files]) :
        files \in {<<>>} \cup [{ReplicaPath} -> PlainState]}

\* what the replica finds when a command starts
ReplicaRuns ==
    [file : ReplicaFiles, f : ReplicaFs, drive : ReplicaDrives, cloud : ReplicaClouds]

\* lines 1109-1127 and 1150-1163: the entries the commands compute in a run
statuses(run, listing) ==
    begin_cycle(run.file, run.f, listing, "none").manifest.files

InitReplica ==
    /\ \E run \in ReplicaRuns :
          /\ manifest_file = run.file
          /\ fs = run.f
          /\ drive = run.drive
          /\ cloud_manifest = download_cloud_manifest(run.cloud)
    /\ manifest = load_local_manifest(manifest_file).manifest
    /\ nextId = 2
    /\ now = MaxTime
    /\ used = [local |-> 0, remote |-> 0, sync |-> MaxSyncs - 1, fault |-> 0]
    /\ result = NoResult
    /\ last = Step("init")
    /\ stable = {}
    /\ synced_at = <<>>
    /\ tasks = [i \in Procs |-> IdleTask]
    /\ begun = None

NextReplica ==
    \/ GetSyncPlan
    \/ ExecuteSync

SpecReplica == InitReplica /\ [][NextReplica]_vars

\* =========================================================================
\* Two sync commands side by side.  Each command is a task on the async
\* runtime; nothing but the brief lock in GoogleDriveState::get_hub is taken,
\* so another command can run between a command's load_local_manifest and its
\* save_local_manifest.  StartPlan and StartExecute run a command up to its
\* last await before the save, SaveManifest runs the rest.
\* =========================================================================

World ==
    [fs |-> fs, drive |-> drive, nextId |-> nextId, manifest |-> manifest,
     cloud_manifest |-> cloud_manifest]

NoneStarted == \A i \in Procs : tasks[i].pc = "idle"

Started(i, cmd, res, save, ret) ==
    /\ tasks' = [tasks EXCEPT ![i] = [pc |-> IF ret.kind = "err" THEN "done" ELSE "saving",
                                      cmd |-> cmd, res |-> res, save |-> save,
                                      ret |-> ret]]
    /\ result' = IF ret.kind = "err" THEN ret ELSE NoResult
    /\ begun' = IF begun = None THEN Some(World) ELSE begun
    /\ last' = Step(cmd)
    /\ UNCHANGED <<manifest, cloud_manifest, now, used, stable, synced_at, manifest_file>>

\* get_sync_plan, lines 1109-1127
StartPlan ==
    \E i \in Procs, listing \in Listings(drive) :
    \E m \in {begin_cycle(manifest_file, fs, listing, "none").manifest} :
        /\ tasks[i].pc = "idle"
        /\ Started(i, "plan", <<>>, m,
                   [NoResult EXCEPT !.kind = "plan", !.plan = build_sync_plan(m)])
        /\ UNCHANGED <<fs, drive, nextId>>

\* execute_sync_with_resolutions, lines 1150-1267
StartExecute ==
    \E i \in Procs, listing \in Listings(drive) :
    \E cycle \in {begin_cycle(manifest_file, fs, listing, "none").manifest} :
    \E res \in Resolutions(cycle), order \in Perms(DOMAIN cycle.files) :
    \E st \in {run_pass(cycle, fs, drive, nextId, res, {}, order, now)} :
        /\ tasks[i].pc = "idle"
        /\ st.nextId <= MaxId + 1
        /\ fs' = st.fs
        /\ drive' = st.drive
        /\ nextId' = st.nextId
        /\ Started(i, "execute", res, saved_manifest(cycle, st, now),
                   IF st.err THEN ErrResult ELSE SyncResult(st))

\* lines 1130-1133 and 1270-1288
SaveManifest ==
    \E i \in Procs :
        /\ tasks[i].pc = "saving"
        /\ manifest' = tasks[i].save
        /\ manifest_file' = save_local_manifest(tasks[i].save)
        /\ cloud_manifest' = IF tasks[i].cmd = "execute" THEN Some(tasks[i].save)
                             ELSE cloud_manifest
        /\ tasks' = [tasks EXCEPT ![i].pc = "done"]
        /\ result' = tasks[i].ret
        /\ last' = Step("save")
        /\ UNCHANGED <<fs, drive, nextId, now, used, stable, synced_at, begun>>

\* the world before the two commands start
EarlierTick == NoneStarted /\ Tick

EarlierWrite == NoneStarted /\ LocalWrite

NextConcurrent ==
    \/ EarlierTick
    \/ EarlierWrite
    \/ StartPlan
    \/ StartExecute
    \/ SaveManifest

SpecConcurrent == Init /\ [][NextConcurrent]_vars

\* every world that running one command alone, from load to save, can leave
Alone(w, task) ==
    IF task.cmd = "plan"
    THEN {[w EXCEPT !.manifest = refresh_manifest(w.manifest, w.fs, listing)] :
            listing \in Listings(w.drive)}
    ELSE UNION {
            LET cycle == refresh_manifest(w.manifest, w.fs, listing) IN
            {LET st == run_pass(cycle, w.fs, w.drive, w.nextId, task.res, {}, order, now)
             IN  [fs |-> st.fs, drive |-> st.drive, nextId |-> st.nextId,
                  manifest |-> IF st.err THEN w.manifest
                               ELSE saved_manifest(cycle, st, now),
                  cloud_manifest |-> IF st.err THEN w.cloud_manifest
                                     ELSE Some(saved_manifest(cycle, st, now))] :
                order \in Perms(DOMAIN cycle.files)} :
            listing \in Listings(w.drive)}

\* the manifests that running the two commands one after the other can persist
SerialManifests ==
    {w2.manifest : w2 \in UNION {Alone(w1, tasks[2]) : w1 \in Alone(Unwrap(begun), tasks[1])}}
    \cup
    {w2.manifest : w2 \in UNION {Alone(w1, tasks[1]) : w1 \in Alone(Unwrap(begun), tasks[2])}}

\* C9: when two sync commands that ran side by side have both finished, the
\* persisted manifest is one that running them in some serial order persists.
C9_SerialManifest ==
    (\A i \in Procs : tasks[i].pc = "done") => manifest \in SerialManifests

\* =========================================================================
\* Properties
\* =========================================================================

\* the last step was a sync command that got as far as the two detectors
Cycled == last.cmd \in {"plan", "execute"} /\ last.abort = "none" /\ ~last.unreadable

Planned == Cycled /\ last.cmd = "plan"

Executed == Cycled /\ last.cmd = "execute"

\* the manifest entries the per-file pass of the last execute started from
Resolved == apply_resolutions([DefaultManifest EXCEPT !.files = last.cycle], last.res).files

\* the buckets of the plan built from `files` that list path p
Buckets(files, p) ==
    LET plan == build_sync_plan([DefaultManifest EXCEPT !.files = files])
        in(bucket) == \E a \in bucket : a.path = p
    IN  {b \in {"uploads", "downloads", "conflicts", "deletions_local", "deletions_cloud"} :
            in(plan[b])}

\* C1: a path that the last successful pass left Synced and that was not
\* edited since, locally or remotely, is still Synced after the next
\* detect_local_changes and update_manifest_from_cloud, and the plan has no
\* action for it.
C1_UntouchedStaysSynced ==
    Planned =>
        \A p \in stable :
            /\ last.cycle[p].status = "Synced"
            /\ Buckets(last.cycle, p) = {}

\* C2: a Synced path whose local hash and whose remote modified time both
\* changed before the cycle is Conflict after the two detectors, and is listed
\* in conflicts only.
BothChanged(p) ==
    /\ p \in DOMAIN last.loaded
    /\ last.loaded[p].status = "Synced"
    /\ IsSome(last.loaded[p].local_hash)
    /\ IsSome(last.cycle[p].local_hash)
    /\ last.cycle[p].local_hash # last.loaded[p].local_hash
    /\ IsSome(last.loaded[p].cloud_modified)
    /\ IsSome(last.cycle[p].cloud_modified)
    /\ last.cycle[p].cloud_modified # last.loaded[p].cloud_modified

C2_BothChangedIsConflict ==
    Cycled =>
        \A p \in DOMAIN last.cycle :
            BothChanged(p) =>
                /\ last.cycle[p].status = "Conflict"
                /\ Buckets(last.cycle, p) = {"conflicts"}

\* C3: when the upload or download of one path fails, the pass still returns
\* a result, the manifest is persisted, and every other entry that had a
\* transfer to make and whose transfer did not fail is Synced.
HadTransfer(p) ==
    \/ Resolved[p].status \in {"LocalModified", "NewLocal"} /\ IsSome(Resolved[p].local_hash)
    \/ Resolved[p].status \in {"CloudModified", "NewCloud"} /\ IsSome(Resolved[p].cloud_file_id)

C3_FailureIsIsolated ==
    (Executed /\ last.failed # {}) =>
        /\ result.kind = "ok"
        /\ manifest.last_sync = Some(now)
        /\ \A p \in DOMAIN last.cycle \ last.fails :
              HadTransfer(p) => manifest.files[p].status = "Synced"

\* C4: a Synced path of which only the local hash changed (the remote object
\* is listed with the recorded modified time) is LocalModified after the two
\* detectors and is listed in uploads only.
OnlyLocalChanged(p) ==
    /\ p \in DOMAIN last.loaded
    /\ last.loaded[p].status = "Synced"
    /\ IsSome(last.cycle[p].local_hash)
    /\ last.cycle[p].local_hash # last.loaded[p].local_hash
    /\ IsSome(last.cycle[p].cloud_file_id)
    /\ last.cycle[p].cloud_modified = last.loaded[p].cloud_modified

C4_OnlyLocalChangeIsUpload ==
    Cycled =>
        \A p \in DOMAIN last.cycle :
            OnlyLocalChanged(p) =>
                /\ last.cycle[p].status = "LocalModified"
                /\ Buckets(last.cycle, p) = {"uploads"}

C4_Witness ==
    /\ Planned
    /\ \E p \in DOMAIN last.cycle :
          /\ OnlyLocalChanged(p)
          /\ IsSome(last.loaded[p].local_hash)
          /\ \E a \in result.plan.uploads : a.path = p

\* C5: when the remote delete of a DeletedLocal entry fails, the returned
\* result or the persisted entry differs from what a successful delete leaves.
AfterDelete(state) ==
    [state EXCEPT !.cloud_file_id = None, !.cloud_hash = None, !.cloud_modified = None]

C5_DeleteFailureIsRecorded ==
    Executed =>
        \A p \in last.delete_failed :
            \/ result.kind # "ok"
            \/ manifest.files[p] # AfterDelete(Resolved[p])

\* C6: a manifest path with a recorded local_hash and a recorded cloud_hash
\* that is absent from the local scan has local_hash and local_modified
\* cleared and status DeletedLocal, and is listed in deletions_cloud only.
SyncedThenDeletedLocally(p) ==
    /\ p \in DOMAIN last.loaded
    /\ IsSome(last.loaded[p].local_hash)
    /\ IsSome(last.loaded[p].cloud_hash)
    /\ fs[p] = None

C7_ConflictBlocksCleanRun ==
    (Executed /\ \E p \in DOMAIN Resolved : Resolved[p].status = "Conflict") =>
        ~(result.kind = "ok" /\ manifest.last_sync = Some(now))

\* C8: a Conflict path resolved with choice "local" is LocalModified after
\* the resolution step, is listed in uploads and not in conflicts, and is
\* uploaded by a pass that returns a result when its local file exists.
ResolvedLocal(p) ==
    /\ last.cycle[p].status = "Conflict"
    /\ p \in DOMAIN last.res
    /\ last.res[p] = "local"

Uploaded(p) ==
    /\ manifest.files[p].status = "Synced"
    /\ manifest.files[p].cloud_hash = manifest.files[p].local_hash
    /\ result.uploaded[p[1]] >= 1
    /\ \E o \in drive : o.parent = p[1] /\ o.name = p[2] /\ o.modified_time = now

C8_LocalChoiceUploads ==
    Executed =>
        \A p \in DOMAIN last.cycle :
            ResolvedLocal(p) =>
                /\ Resolved[p].status = "LocalModified"
                /\ Buckets(Resolved, p) = {"uploads"}
                /\ (result.kind = "ok" /\ IsSome(last.cycle[p].local_hash)) => Uploaded(p)

C8_Witness ==
    /\ Executed
    /\ \E p \in DOMAIN last.cycle : ResolvedLocal(p) /\ result.kind = "ok" /\ Uploaded(p)

\* C10: in a pass without collaborator failures, a DeletedCloud entry whose
\* file exists ends with the file's content in trash, every local content that
\* was there before the pass (and is not the target of a download) still
\* there, and the entry's local_hash and local_modified cleared.
LocalContents(f, P) == {Unwrap(f[q]).content : q \in {r \in P : IsSome(f[r])}}

NotDownloaded(files) ==
    {q \in Paths : q \notin DOMAIN files \/ files[q].status \notin {"CloudModified", "NewCloud"}}

C10_TrashKeepsLocalData ==
    [][(Executed' /\ last'.fails = {}) =>
        \A p \in DOMAIN Resolved' :
            (Resolved'[p].status = "DeletedCloud" /\ IsSome(fs[p])) =>
                /\ fs'[<<"trash", p[2]>>] = fs[p]
                /\ LocalContents(fs, NotDownloaded(Resolved')) \subseteq LocalContents(fs', Paths)
                /\ manifest'.files[p].local_hash = None
                /\ manifest'.files[p].local_modified = None]_vars

\* C11: with an empty manifest and nothing remote, a file found by the local
\* scan is NewLocal after the two detectors and listed in uploads only; when
\* the executor returns a result the entry is Synced and its cloud_hash is the
\* hash of the file.
CreatedLocally(p) ==
    /\ last.loaded = <<>>
    /\ \A q \in DOMAIN last.cycle : last.cycle[q].cloud_file_id = None
    /\ IsSome(last.cycle[p].local_hash)

HashOf(p) == Some(compute_file_hash(Unwrap(fs[p]).content))

C11_NewLocalIsUploaded ==
    Cycled =>
        \A p \in DOMAIN last.cycle :
            CreatedLocally(p) =>
                /\ last.cycle[p].status = "NewLocal"
                /\ last.cycle[p].local_hash = HashOf(p)
                /\ Buckets(last.cycle, p) = {"uploads"}
                /\ (Executed /\ result.kind = "ok") =>
                      /\ manifest.files[p].status = "Synced"
                      /\ manifest.files[p].cloud_hash = HashOf(p)

C11_Witness ==
    /\ Executed
    /\ result.kind = "ok"
    /\ \E p \in DOMAIN last.cycle :
          /\ p = <<"notes", "a.json">>
          /\ CreatedLocally(p)
          /\ manifest.files[p].status = "Synced"
          /\ manifest.files[p].cloud_hash = HashOf(p)
          /\ result.uploaded["notes"] = 1

\* C12: no outcome of execute_sync_with_resolutions updates one of the two
\* manifest copies and not the other: when the local manifest or the manifest
\* at the cloud root is changed by the call, the cloud copy is identical to
\* the local one and carries the last_sync of this pass.
C12_ManifestCopiesAgree ==
    [][(last'.cmd = "execute" /\ (manifest' # manifest \/ cloud_manifest' # cloud_manifest)) =>
            /\ cloud_manifest' = Some(manifest')
            /\ manifest'.last_sync = Some(now)]_vars

\* C13: when execute_sync_with_resolutions fails partway through the
\* per-file pass, every transfer that completed before the failure is Synced
\* in the manifest that the next load_local_manifest returns.
NextLoaded == load_local_manifest(manifest_file).manifest

C13_PartialProgressSurvives ==
    (Executed /\ last.failed # {}) =>
        \A p \in last.done :
            /\ p \in DOMAIN NextLoaded.files
            /\ NextLoaded.files[p].status = "Synced"

\* C14: a sync command that finds sync_manifest.json unreadable or
\* unparseable does not fail: it goes on from an empty manifest, so that
\* get_sync_plan classifies every scanned local file NewLocal and every file
\* that exists only in the cloud NewCloud.
LoadedUnreadable ==
    last.cmd \in {"plan", "execute"} /\ last.abort = "none" /\ last.unreadable

OnlyInCloud(p) == fs[p] = None /\ \E o \in drive : o.parent = p[1] /\ o.name = p[2]

C14_UnreadableManifestIsEmpty ==
    LoadedUnreadable =>
        /\ result.kind # "err"
        /\ last.cmd = "plan" =>
              \A p \in Paths :
                  /\ IsSome(fs[p]) =>
                        p \in DOMAIN last.cycle /\ last.cycle[p].status = "NewLocal"
                  /\ OnlyInCloud(p) =>
                        p \in DOMAIN last.cycle /\ last.cycle[p].status = "NewCloud"

\* C15: a sync command that finds the hub not connected, cannot resolve the
\* folders or cannot list a collection returns an error and leaves the local
\* files, the remote objects, the persisted manifest and the cloud manifest
\* as they were.
Aborted == last.cmd \in {"plan", "execute"} /\ last.abort # "none"

C15_AbortChangesNothing ==
    [][Aborted' =>
            /\ result'.kind = "err"
            /\ UNCHANGED <<fs, drive, manifest, manifest_file, cloud_manifest>>]_vars

\* the listing of the last collection fails while an upload is pending
C15_Witness ==
    /\ Aborted
    /\ last.cmd = "execute"
    /\ last.abort = "trash"
    /\ result.kind = "err"
    /\ \E p \in Paths : IsSome(fs[p]) /\ p \notin DOMAIN manifest.files

\* C16: in the manifest that the sync commands persist, every entry with
\* status DeletedLocal has local_hash absent and cloud_file_id present.
C16_DeletedLocalFields ==
    \A p \in DOMAIN NextLoaded.files :
        NextLoaded.files[p].status = "DeletedLocal" =>
            /\ NextLoaded.files[p].local_hash = None
            /\ IsSome(NextLoaded.files[p].cloud_file_id)

\* C17: in the manifest that get_sync_plan persists after detect_local_changes
\* and update_manifest_from_cloud, every entry with status NewLocal has
\* cloud_file_id absent.
C17_NewLocalHasNoCloudId ==
    Planned =>
        \A p \in DOMAIN NextLoaded.files :
            NextLoaded.files[p].status = "NewLocal" =>
                NextLoaded.files[p].cloud_file_id = None

\* C18: build_sync_plan places every manifest path once in the bucket that
\* its status names and nowhere else, and Synced paths nowhere; total_actions
\* is the number of entries that are not Synced, is_empty holds exactly when
\* every entry is Synced, has_conflicts exactly when some entry is Conflict.
BucketNames == {"uploads", "downloads", "conflicts", "deletions_local", "deletions_cloud"}

BucketOf(status) ==
    CASE status \in {"LocalModified", "NewLocal"} -> {"uploads"}
      [] status \in {"CloudModified", "NewCloud"} -> {"downloads"}
      [] status = "Conflict" -> {"conflicts"}
      [] status = "DeletedLocal" -> {"deletions_cloud"}
      [] status = "DeletedCloud" -> {"deletions_local"}
      [] status = "Synced" -> {}

\* how many actions of the bucket are for path p
Times(bucket, p) == Cardinality({i \in 1..Len(bucket) : bucket[i].path = p})

Built == last.cmd \in {"build", "rebuild"}

C18_PlanBuckets ==
    Built =>
        LET plan == result.value
            files == manifest.files
        IN  /\ \A p \in DOMAIN files, b \in BucketNames :
                  Times(plan[b], p) = IF b \in BucketOf(files[p].status) THEN 1 ELSE 0
            /\ \A b \in BucketNames : \A i \in 1..Len(plan[b]) :
                  /\ plan[b][i].path \in DOMAIN files
                  /\ plan[b][i] = SyncAction(plan[b][i].path, files[plan[b][i].path])
            /\ total_actions(plan)
                  = Cardinality({p \in DOMAIN files : files[p].status # "Synced"})
            /\ is_empty(plan) <=> \A p \in DOMAIN files : files[p].status = "Synced"
            /\ has_conflicts(plan) <=> \E p \in DOMAIN files : files[p].status = "Conflict"

\* a plan for a cloud-only file next to a conflict
C18_Witness ==
    /\ last.cmd = "build"
    /\ DOMAIN manifest.files = Paths
    /\ manifest.files[<<"notes", "a.json">>].status = "NewCloud"
    /\ manifest.files[<<"trash", "a.json">>].status = "Conflict"
    /\ Len(result.value.downloads) = 1
    /\ has_conflicts(result.value)
    /\ total_actions(result.value) = 2

\* C19: build_sync_plan leaves the manifest as it was, and a second call on
\* the same manifest returns the same set of actions in each bucket, in
\* whatever order the map enumerates its entries.
Actions(bucket) == {bucket[i] : i \in 1..Len(bucket)}

C19_PlanIsRepeatable ==
    last.cmd = "rebuild" =>
        /\ manifest = last.before
        /\ \A b \in BucketNames : Actions(result.value[b]) = Actions(last.first[b])
        /\ \A b \in BucketNames : Actions(result.value[b]) = build_sync_plan(manifest)[b]

\* two calls that enumerated two uploads in opposite orders
C19_Witness ==
    /\ last.cmd = "rebuild"
    /\ Len(result.value.uploads) = 2
    /\ result.value.uploads # last.first.uploads

\* C20: load_local_manifest after save_local_manifest returns a manifest equal
\* to the one saved, in version, device_id, last_sync and every file entry.
C20_JsonRoundTrip ==
    last.cmd = "load" =>
        /\ result.value.ok
        /\ result.value.manifest = manifest

\* an entry with some fields absent and a status of two words came back
C20_Witness ==
    /\ last.cmd = "load"
    /\ result.value.ok
    /\ \E p \in DOMAIN result.value.manifest.files :
          /\ result.value.manifest.files[p].status = "DeletedCloud"
          /\ result.value.manifest.files[p].cloud_file_id = None
          /\ IsSome(result.value.manifest.files[p].local_modified)
    /\ IsSome(result.value.manifest.last_sync)

\* C21: update_manifest_from_cloud turns a listed LocalModified entry into
\* Conflict when the listed modified time differs from the cloud_modified
\* recorded before the call, and leaves it LocalModified when they are equal.
\* (The recorded time is compared when there is one.)
Listed(p) ==
    /\ last.cmd = "cloud"
    /\ last.args.cloud_files # <<>>
    /\ p = <<last.args.subdir, last.args.cloud_files[1].name>>
    /\ p \in DOMAIN last.before.files

ListedTime == Some(last.args.cloud_files[1].modified_time)

C21_LocalModifiedEscalates ==
    \A p \in Paths :
        (Listed(p) /\ last.before.files[p].status = "LocalModified"
                   /\ IsSome(last.before.files[p].cloud_modified)) =>
            result.value.files[p].status =
                IF ListedTime # last.before.files[p].cloud_modified
                THEN "Conflict" ELSE "LocalModified"

\* C22: update_manifest_from_cloud turns a listed Synced entry into
\* CloudModified exactly when the listed modified time exceeds the
\* cloud_modified recorded before the call by more than 2 seconds.
C22_SyncedEscalatesPastTolerance ==
    \A p \in Paths :
        (Listed(p) /\ last.before.files[p].status = "Synced"
                   /\ IsSome(last.before.files[p].cloud_modified)) =>
            result.value.files[p].status =
                IF Unwrap(ListedTime) - Unwrap(last.before.files[p].cloud_modified) > Tolerance
                THEN "CloudModified" ELSE "Synced"

\* C23: detect_local_changes on a scanned path: a known path whose hash
\* differs gets the scanned hash and mtime and goes Synced -> LocalModified
\* or CloudModified -> Conflict; a known path with the recorded hash is left
\* unchanged whatever its mtime; an unknown path is inserted as NewLocal
\* with no cloud field.
Detected == last.cmd = "detect"

C23_ScannedPaths ==
    Detected =>
        \A p \in DOMAIN last.args :
            LET hash == last.args[p][1]
                modified == last.args[p][2]
                after == result.value.files[p]
            IN  IF p \notin DOMAIN last.before.files
                THEN after = FileState(Some(hash), None, Some(modified), None, "NewLocal", None)
                ELSE LET state == last.before.files[p] IN
                     IF state.local_hash = Some(hash)
                     THEN after = state
                     ELSE /\ after.local_hash = Some(hash)
                          /\ after.local_modified = Some(modified)
                          /\ state.status = "Synced" => after.status = "LocalModified"
                          /\ state.status = "CloudModified" => after.status = "Conflict"

\* a file touched without a change of content next to a file that changed
C23_Witness ==
    /\ Detected
    /\ DOMAIN last.args = Paths
    /\ DOMAIN last.before.files = Paths
    /\ \E p, q \in Paths :
          /\ last.before.files[p].local_hash = Some(last.args[p][1])
          /\ last.before.files[p].local_modified # Some(last.args[p][2])
          /\ result.value.files[p] = last.before.files[p]
          /\ last.before.files[q].status = "CloudModified"
          /\ result.value.files[q].status = "Conflict"

\* C24: detect_local_changes removes from the manifest a path that has a
\* recorded local_hash, is absent from the scan and has no cloud presence
\* (neither cloud_hash nor cloud_file_id nor cloud_modified).
C24_UntrackableIsDropped ==
    Detected =>
        \A p \in DOMAIN last.before.files :
            (/\ p \notin DOMAIN last.args
             /\ IsSome(last.before.files[p].local_hash)
             /\ last.before.files[p].cloud_hash = None
             /\ last.before.files[p].cloud_file_id = None
             /\ last.before.files[p].cloud_modified = None) =>
                p \notin DOMAIN result.value.files

\* C25: update_manifest_from_cloud for a collection: a manifest path of the
\* collection that the listing does not show and that has both cloud_file_id
\* and local_hash becomes DeletedCloud with cloud_file_id and cloud_modified
\* cleared, whatever its status was; one that lacks either is unchanged.
Unlisted(p) ==
    /\ last.cmd = "cloud"
    /\ p \in DOMAIN last.before.files
    /\ p[1] = last.args.subdir
    /\ \A i \in 1..Len(last.args.cloud_files) : last.args.cloud_files[i].name # p[2]

C25_UnlistedIsDeletedCloud ==
    \A p \in Paths :
        Unlisted(p) =>
            LET state == last.before.files[p] IN
            result.value.files[p] =
                IF IsSome(state.cloud_file_id) /\ IsSome(state.local_hash)
                THEN [state EXCEPT !.status = "DeletedCloud",
                                   !.cloud_file_id = None,
                                   !.cloud_modified = None]
                ELSE state

\* an entry in conflict whose remote object is gone
C25_Witness ==
    \E p \in Paths :
        /\ Unlisted(p)
        /\ last.before.files[p].status = "Conflict"
        /\ result.value.files[p].status = "DeletedCloud"
        /\ result.value.files[p].cloud_file_id = None
        /\ IsSome(result.value.files[p].local_hash)

\* C26: in a pass that returns a result, an entry that was LocalModified or
\* NewLocal and whose upload succeeded has cloud_hash = local_hash,
\* cloud_modified = now and status Synced; the upload created a new remote
\* object when the entry had no cloud_file_id and rewrote the object of that
\* id, creating none, when it had one.
Ids(d) == {o.id : o \in d}

ObjectsOf(d, p) == {o \in d : o.parent = p[1] /\ o.name = p[2]}

UploadSucceeded(p) ==
    /\ Executed
    /\ result.kind = "ok"
    /\ Resolved[p].status \in {"LocalModified", "NewLocal"}
    /\ p \in last.done

C26_UploadCreatesOrUpdates ==
    [][\A p \in Paths :
        (p \in DOMAIN last'.cycle /\ UploadSucceeded(p)') =>
            /\ manifest'.files[p].cloud_hash = Resolved'[p].local_hash
            /\ manifest'.files[p].cloud_modified = Some(now)
            /\ manifest'.files[p].status = "Synced"
            /\ IF Resolved'[p].cloud_file_id = None
               THEN \E o \in ObjectsOf(drive', p) :
                        /\ o.id \notin Ids(drive)
                        /\ o.modified_time = now
                        /\ fs'[p] = fs[p] => o.content = Unwrap(fs[p]).content
               ELSE /\ \A o \in ObjectsOf(drive', p) : o.id \in Ids(drive)
                    /\ \E o \in drive' :
                          /\ o.id = Unwrap(Resolved'[p].cloud_file_id)
                          /\ o.modified_time = now
                          /\ fs'[p] = fs[p] => o.content = Unwrap(fs[p]).content]_vars

\* a changed file went up into the remote object it already had
C26_Witness ==
    \E p \in DOMAIN last.cycle :
        /\ UploadSucceeded(p)
        /\ Resolved[p].status = "LocalModified"
        /\ IsSome(Resolved[p].cloud_file_id)
        /\ Cardinality(ObjectsOf(drive, p)) = 1
        /\ \E o \in ObjectsOf(drive, p) :
              o.id = Unwrap(Resolved[p].cloud_file_id) /\ o.modified_time = now

\* C27: in a pass that returns a result, an entry that was CloudModified or
\* NewCloud and whose download succeeded has local_hash = cloud_hash,
\* local_modified = cloud_modified and status Synced, and the local file at
\* its path holds the content of the remote object of its cloud_file_id
\* (unless a file moved to trash in the same pass then took that path).
DownloadSucceeded(p) ==
    /\ Executed
    /\ result.kind = "ok"
    /\ Resolved[p].status \in {"CloudModified", "NewCloud"}
    /\ p \in last.done

MovedOnto(p) ==
    \E q \in DOMAIN Resolved :
        Resolved[q].status = "DeletedCloud" /\ <<"trash", q[2]>> = p

C27_DownloadOverwritesLocal ==
    [][\A p \in Paths :
        (p \in DOMAIN last'.cycle /\ DownloadSucceeded(p)') =>
            /\ manifest'.files[p].local_hash = Resolved'[p].cloud_hash
            /\ manifest'.files[p].local_modified = Resolved'[p].cloud_modified
            /\ manifest'.files[p].status = "Synced"
            /\ ~MovedOnto(p)' =>
                  /\ IsSome(fs'[p])
                  /\ \E o \in drive :
                        /\ o.id = Unwrap(Resolved'[p].cloud_file_id)
                        /\ Unwrap(fs'[p]).content = o.content]_vars

\* a CloudModified entry was downloaded over the local file
C27_Witness ==
    \E p \in DOMAIN last.cycle :
        /\ DownloadSucceeded(p)
        /\ Resolved[p].status = "CloudModified"
        /\ IsSome(fs[p])
        /\ manifest.files[p].local_modified = Resolved[p].cloud_modified
        /\ \E o \in drive : /\ o.id = Unwrap(Resolved[p].cloud_file_id)
                             /\ Unwrap(fs[p]).content = o.content

\* C28: an entry that is Synced or Conflict when the per-file pass starts is
\* not acted on: the pass records no upload, download, remote delete or local
\* move for its path, the remote objects of the path and the local file at the
\* path are as before (unless another file was moved to trash onto that
\* path), and the saved entry equals the entry the pass started with.
Skipped(p) ==
    /\ Executed
    /\ Resolved[p].status \in {"Synced", "Conflict"}

C28_SyncedAndConflictAreSkipped ==
    [][\A p \in Paths :
        (p \in DOMAIN last'.cycle /\ Skipped(p)') =>
            /\ p \notin last'.done \cup last'.failed
                       \cup last'.delete_failed \cup last'.rename_failed
            /\ ObjectsOf(drive', p) = ObjectsOf(drive, p)
            /\ ~MovedOnto(p)' => fs'[p] = fs[p]
            /\ result'.kind = "ok" => manifest'.files[p] = Resolved'[p]]_vars

\* a pass that transferred another file left a Conflict entry alone
C28_Witness ==
    \E p \in DOMAIN last.cycle :
        /\ Skipped(p)
        /\ result.kind = "ok"
        /\ Resolved[p].status = "Conflict"
        /\ last.done # {}
        /\ manifest.files[p] = Resolved[p]

\* C29: a Conflict path resolved with choice "cloud" is CloudModified after the
\* resolution step, and a pass that returns a result has downloaded its remote
\* object over the local file and left the entry Synced with the cloud hash
\* and time; a Conflict path resolved with choice "keep_both" is LocalModified
\* after the resolution step and ends the pass with the entry that choice
\* "local" gives: uploaded and Synced when its local file exists.
ResolvedAs(p, choice) ==
    /\ Executed
    /\ last.cycle[p].status = "Conflict"
    /\ p \in DOMAIN last.res
    /\ last.res[p] = choice

AfterUpload(e, t) ==
    [e EXCEPT !.cloud_hash = e.local_hash, !.cloud_modified = Some(t), !.status = "Synced"]

AfterDownload(e) ==
    [e EXCEPT !.local_hash = e.cloud_hash, !.local_modified = e.cloud_modified,
              !.status = "Synced"]

C29_WitnessKeepBoth ==
    \E p \in DOMAIN last.cycle :
        /\ ResolvedAs(p, "keep_both")
        /\ result.kind = "ok"
        /\ manifest.files[p] = AfterUpload(last.cycle[p], now)

\* C30: update_manifest_from_cloud for one collection leaves the entries of
\* every other collection as they were, removes no entry, and adds entries
\* only under that collection; an entry of another collection with the same
\* file name as a listed file is untouched.
UpdatedFor(c) == last.cmd = "cloud" /\ last.args.subdir = c

C30_OnlyOwnCollection ==
    \A c \in SubdirSet :
        UpdatedFor(c) =>
            /\ DOMAIN last.before.files \subseteq DOMAIN result.value.files
            /\ \A p \in DOMAIN result.value.files :
                  p[1] # c => /\ p \in DOMAIN last.before.files
                              /\ result.value.files[p] = last.before.files[p]

\* the listed file of one collection changed its entry while the entry of
\* the same file name in another collection, which has cloud presence and is
\* not in the listing, stayed as it was
C30_Witness ==
    \E c \in SubdirSet : \E p, q \in DOMAIN last.before.files :
        /\ UpdatedFor(c)
        /\ p[1] = c /\ q[1] # c /\ p[2] = q[2]
        /\ Listed(p)
        /\ result.value.files[p] # last.before.files[p]
        /\ IsSome(last.before.files[q].cloud_file_id)
        /\ IsSome(last.before.files[q].local_hash)
        /\ result.value.files[q] = last.before.files[q]

\* C31: the entries a command computes depend on the manifest at the cloud
\* root: there are two runs with the same local manifest, local files and
\* remote listing, and different cloud-root manifests, in which the commands
\* compute different entries.  The runs are those a replica can start from,
\* the one at hand included.
Here ==
    [file |-> manifest_file, f |-> fs, drive |-> drive, cloud |-> cloud_manifest]

C31_CloudManifestDecides ==
    \E run \in ReplicaRuns \cup {Here} :
    \E listing \in Listings(run.drive) :
    \E entries \in {statuses(run, listing)} :
    \E cloud \in ReplicaClouds \cup {cloud_manifest} :
        statuses([run EXCEPT !.cloud = cloud], listing) # entries

\* C32: a pass that returns a result, with no entry left in Conflict by the
\* resolution step and no collaborator call failing, persists a manifest
\* whose plan is empty: no entry is LocalModified, NewLocal, CloudModified,
\* NewCloud, DeletedLocal or DeletedCloud.
Pending == {"LocalModified", "NewLocal", "CloudModified", "NewCloud",
            "DeletedLocal", "DeletedCloud"}

CleanPass ==
    /\ Executed
    /\ result.kind = "ok"
    /\ last.fails = {}
    /\ \A p \in DOMAIN Resolved : Resolved[p].status # "Conflict"

C32_CleanPassConverges ==
    CleanPass =>
        /\ build_sync_plan(manifest) = EmptyPlan
        /\ \A p \in DOMAIN manifest.files : manifest.files[p].status \notin Pending

\* C33: for a path that some pass left Synced, a pass downloads over the
\* existing local file only when the file still has the content it had when
\* the path was last left Synced or the choice for the path was "cloud", and
\* uploads over the existing remote object only when the object still has the
\* content it had then or the choice was "local" or "keep_both".  (Stated for
\* remote objects rewritten more than Tolerance after the last pass, the
\* rewrites a comparison of modification times can tell.)
Chosen(p, choices) ==
    /\ last.cycle[p].status = "Conflict"
    /\ p \in DOMAIN last.res
    /\ last.res[p] \in choices

DownloadedNow(p) ==
    /\ Executed
    /\ p \in DOMAIN last.cycle
    /\ p \in last.done
    /\ Resolved[p].status \in {"CloudModified", "NewCloud"}

UploadedNow(p) ==
    /\ Executed
    /\ p \in DOMAIN last.cycle
    /\ p \in last.done
    /\ Resolved[p].status \in {"LocalModified", "NewLocal"}

C33_NoSilentOverwrite ==
    [][\A p \in DOMAIN synced_at :
        /\ (DownloadedNow(p)' /\ IsSome(fs[p]) /\ ~MovedOnto(p)') =>
              \/ Some(Unwrap(fs[p]).content) = synced_at[p].local
              \/ Chosen(p, {"cloud"})'
        /\ (UploadedNow(p)' /\ IsSome(Resolved'[p].cloud_file_id)) =>
              \/ \A o \in drive :
                    (/\ o.id = Unwrap(Resolved'[p].cloud_file_id)
                     /\ o.modified_time > Unwrap(manifest.last_sync) + Tolerance) =>
                        [id |-> o.id, content |-> o.content] \in synced_at[p].remote
              \/ Chosen(p, {"local", "keep_both"})']_vars

\* C34: in every manifest a pass persists, an entry with status Synced has
\* local_hash and cloud_hash both present and equal.
Persisted == Executed /\ result.kind = "ok"

C34_SyncedHashesAgree ==
    Persisted =>
        \A p \in DOMAIN manifest.files :
            manifest.files[p].status = "Synced" =>
                /\ IsSome(manifest.files[p].local_hash)
                /\ IsSome(manifest.files[p].cloud_hash)
                /\ manifest.files[p].local_hash = manifest.files[p].cloud_hash

\* C35: the resolution step changes the status, and only the status, of the
\* entries that are Conflict and whose path the resolutions name with choice
\* "local", "cloud" or "keep_both" (a later item for a path replacing an
\* earlier one); every other entry, and version, device_id and last_sync, are
\* as before, and no entry is added or removed.
ResolvedCall == last.cmd = "resolve"

Named(p) == \E i \in 1..Len(last.args) : last.args[i].path = p

LastChoice(p) ==
    LET i == CHOOSE i \in 1..Len(last.args) :
                /\ last.args[i].path = p
                /\ \A j \in 1..Len(last.args) : last.args[j].path = p => j <= i
    IN  last.args[i].choice

Demoted(p) ==
    /\ last.before.files[p].status = "Conflict"
    /\ Named(p)
    /\ LastChoice(p) \in {"local", "cloud", "keep_both"}

C35_ResolutionChangesOnlyStatus ==
    ResolvedCall =>
        /\ result.value = [last.before EXCEPT !.files = result.value.files]
        /\ DOMAIN result.value.files = DOMAIN last.before.files
        /\ \A p \in DOMAIN last.before.files :
              IF Demoted(p)
              THEN result.value.files[p] =
                     [last.before.files[p] EXCEPT
                        !.status = IF LastChoice(p) = "cloud" THEN "CloudModified"
                                   ELSE "LocalModified"]
              ELSE result.value.files[p] = last.before.files[p]

\* one call in which a Conflict entry is demoted while a resolution for an
\* entry that is not Conflict, with a recognised choice, changes nothing
C35_Witness ==
    /\ ResolvedCall
    /\ \E p, q \in DOMAIN last.before.files :
          /\ Demoted(p)
          /\ result.value.files[p].status = "CloudModified"
          /\ last.before.files[q].status = "LocalModified"
          /\ Named(q)
          /\ LastChoice(q) = "cloud"
          /\ result.value.files[q] = last.before.files[q]

\* C36: detect_local_changes applied to its own result with the same scan
\* returns that result again, the result has the version, device_id and
\* last_sync of the manifest given, and the manifest given is as before.
C36_DetectIsIdempotent ==
    Detected =>
        /\ detect_local_changes(result.value, last.args) = result.value
        /\ result.value.version = last.before.version
        /\ result.value.device_id = last.before.device_id
        /\ result.value.last_sync = last.before.last_sync
        /\ manifest = last.before

\* a call that changed, added and marked entries, on a manifest with a last_sync
C36_Witness ==
    /\ Detected
    /\ IsSome(last.before.last_sync)
    /\ result.value.files # last.before.files
    /\ \E p \in DOMAIN last.args : p \in DOMAIN last.before.files
                                    /\ result.value.files[p] # last.before.files[p]
    /\ \E p \in DOMAIN last.before.files : p \notin DOMAIN last.args
                                           /\ result.value.files[p] # last.before.files[p]

\* C37: the result of a pass reports for each collection as uploaded the
\* number of its entries that went from LocalModified or NewLocal to Synced in
\* the pass and as downloaded the number that went from CloudModified or
\* NewCloud to Synced; needs_reload is true exactly when an entry of notes,
\* folders or kanban was downloaded.
BecameSynced(c, from) ==
    {p \in DOMAIN Resolved :
        /\ p[1] = c
        /\ Resolved[p].status \in from
        /\ manifest.files[p].status = "Synced"}

====
